---- MODULE Spec2Model ----
(***************************************************************************)
(* The PostgreSQL record store of cliquet                                  *)
(* (src/cliquet/storage/postgresql/__init__.py) as a state machine.        *)
(*                                                                         *)
(* The database holds two tables, records and deleted (tombstones), keyed  *)
(* by (user_id, resource_name, id).  A (user_id, resource_name) pair is a  *)
(* collection.  Every public operation of the class PostgreSQL is a        *)
(* sequence of SQL statements run inside one connect() scope; the model    *)
(* has one action per statement.  PostgreSQL runs the statements under its *)
(* default isolation, READ COMMITTED: each statement sees what is          *)
(* committed when it starts.  The last statement of every writing          *)
(* operation is its only write, and the COMMIT of connect() follows it     *)
(* with no statement of the same caller in between, so the write and its   *)
(* COMMIT are one step: a statement of another caller that falls between   *)
(* them either does not see the write (and is then ordered before the      *)
(* step) or waits on the row for the COMMIT (and is ordered after it).     *)
(*                                                                         *)
(* Python dicts are functions from field names to values.  A payload value *)
(* is written as its JSON text ("\"a\"" is the string a, "1" the number    *)
(* 1, "null" is None), which is what json.dumps stores in the JSONB        *)
(* column; identities are integers and last_modified values are integers   *)
(* (epoch values).                                                         *)
(*                                                                         *)
(* get_all is one SELECT; the rows a LIMIT without ORDER BY keeps and the  *)
(* order of rows that ORDER BY leaves open are choices of the database.    *)
(* initialize_schema is modelled scope by scope on the metadata table.     *)
(* connect() is modelled on its own, one action per clause, over a pool    *)
(* that counts a connection as checked out from getconn to putconn; there  *)
(* the answers of the database to the statements of a body are inputs.     *)
(***************************************************************************)
EXTENDS Integers, Sequences, FiniteSets, TLC

VARIABLES
    now,      \* the database clock (localtimestamp), as an epoch integer
    records,  \* table records: collection -> id -> NoRec or [data, last_modified]
    deleted,  \* table deleted: collection -> id -> NoTomb or last_modified
    pc,       \* caller -> the statement the caller's operation is at
    call,     \* caller -> the operation in progress and its local variables
    last,     \* the outcome of the operation that completed in the last step
    issued,   \* collection -> the last_modified values assigned, in order (history)
    max_fetch_size,  \* self._max_fetch_size (cliquet.storage_max_fetch_size)
    pages,    \* the pages a client has received in its traversal of a collection
    schema,   \* the metadata table: whether it exists and the rows it holds
    runs,     \* process -> where its run of initialize_schema is
    executed, \* the SQL scripts executed, in order (history)
    pool,     \* the connection pool and its connections
    scopes,   \* caller -> the connect() scopes it is in, innermost last
    exited,   \* the connect() scopes that were left, in order (history)
    rendered  \* the SQL texts rendered, with their inputs and holders (history)

vars == <<now, records, deleted, pc, call, last, issued, max_fetch_size, pages,
          schema, runs, executed, pool, scopes, exited, rendered>>

\* the connections (the record operations are modelled statement by
\* statement above the connections; connect() is modelled on its own)
connections == <<pool, scopes, exited>>

\* the schema and its administration
admin == <<schema, runs, executed>>

\* what no statement of a record operation writes: the settings of the
\* instance and the schema
fixed == <<max_fetch_size, admin, connections, rendered>>

\* with what a client keeps of the results
aux == <<fixed, pages>>

\* the records, the callers of the record operations and their clients
store == <<now, records, deleted, pc, call, last, issued, max_fetch_size, pages,
           rendered>>

----------------------------------------------------------------------------
(* Bounds *)

NumCallers == 2
NumIds == 2
MaxTs == 3
MaxFetchSize == 1

Callers == 1..NumCallers
Ids == 1..NumIds
Collections == {"c1", "c2"}
MainColls == {"c1"}

----------------------------------------------------------------------------
(* Values *)

StrA == "\"a\""
Str1 == "\"1\""
Num1 == "1"
JNull == "null"
SqlNull == "<NULL>"

id_field == "id"
modified_field == "last_modified"
deleted_field == "deleted"
unique_fields == <<"email">>

COMPARISON_EQ == "=="
COMPARISON_NOT == "!="

EmptyDict == [f \in {} |-> JNull]
NoRec == [data |-> EmptyDict, last_modified |-> 0]
NoTomb == 0

Range(s) == {s[k] : k \in DOMAIN s}

Max(S) == CHOOSE x \in S : \A y \in S : y <= x
Min(S) == CHOOSE x \in S : \A y \in S : x <= y

\* d[k] = v on a dict (insert or overwrite)
DictSet(d, k, v) == [f \in DOMAIN d \cup {k} |-> IF f = k THEN v ELSE d[f]]

\* the dict with the fields of fs given by val, the fields holding Absent left out
Absent == "<absent>"
MkRecord(pid, email) ==
    [f \in (IF pid = 0 THEN {} ELSE {id_field})
           \cup (IF email = Absent THEN {} ELSE {"email"})
      |-> IF f = id_field THEN pid ELSE email]

\* isinstance(value, six.string_types)
IsPyString(v) == v \in {StrA, Str1}

\* the characters of a Python string
PyChars(v) ==
    CASE v = StrA -> "a"
      [] v = Str1 -> "1"

\* json.dumps(value): a value is written as its JSON text
JsonDumps(v) == v

\* text.strip('"'): the text without the double quotes at its ends
StripQuotes(text) ==
    CASE text = StrA -> "a"
      [] text = Str1 -> "1"
      [] OTHER -> text

\* record.get(field)
PyGet(record, field) == IF field \in DOMAIN record THEN record[field] ELSE JNull

\* record.get(resource.id_field), 0 when the payload names no identity
RecordId(record) == IF id_field \in DOMAIN record THEN record[id_field] ELSE 0

\* data->>field: the value as text, SQL NULL for a missing field or a JSON null
JsonbText(data, field) ==
    IF field \notin DOMAIN data THEN SqlNull
    ELSE IF data[field] = JNull THEN SqlNull
    ELSE StripQuotes(data[field])

Coalesce(x, default) == IF x = SqlNull THEN default ELSE x

Filter(field, value, operator) ==
    [field |-> field, value |-> value, operator |-> operator]

----------------------------------------------------------------------------
(* The tables of one collection *)

Live(c, i) == records[c][i].last_modified # 0
Tombstoned(c, i) == deleted[c][i] # NoTomb

LiveIds(c) == {i \in Ids : Live(c, i)}
TombIds(c) == {i \in Ids : Tombstoned(c, i)}

\* every last_modified held by a row of the collection, in either table
RowTimestamps(c) ==
    {records[c][i].last_modified : i \in LiveIds(c)}
        \cup {deleted[c][i] : i \in TombIds(c)}

\* resource_timestamp(user_id, resource_name): the latest last_modified of the
\* collection, the clock when the collection has no row
resource_timestamp(c) ==
    IF RowTimestamps(c) = {} THEN now ELSE Max(RowTimestamps(c))

\* a database that assigns the clock without looking at the rows it holds
bump_timestamp_clock_only(c) == now

\* the last_modified the database assigns to a row written now: the clock,
\* pushed after the latest last_modified of the collection
bump_timestamp(c) ==
    IF resource_timestamp(c) >= now THEN resource_timestamp(c) + 1 ELSE now

----------------------------------------------------------------------------
(* _format_conditions: what the rendered condition selects *)

\* operators.setdefault(filtr.operator, filtr.operator)
SqlOperator(operator) ==
    CASE operator = COMPARISON_EQ -> "="
      [] operator = COMPARISON_NOT -> "<>"
      [] OTHER -> operator

\* the value bound to the value placeholder of a payload field: a string as
\* it is, any other value as its JSON text without double quotes
FilterText(value) ==
    IF IsPyString(value) THEN PyChars(value) ELSE StripQuotes(JsonDumps(value))

SqlCompare(sql_operator, lhs, rhs) ==
    CASE sql_operator = "=" -> lhs = rhs
      [] sql_operator = "<>" -> lhs # rhs

\* whether the live row (c, i) satisfies one rendered condition
RowMatches(c, i, filtr) ==
    IF filtr.field = id_field
        THEN SqlCompare(SqlOperator(filtr.operator), i, filtr.value)
    ELSE IF filtr.field = modified_field
        THEN SqlCompare(SqlOperator(filtr.operator),
                        records[c][i].last_modified, filtr.value)
    ELSE SqlCompare(SqlOperator(filtr.operator),
                    Coalesce(JsonbText(records[c][i].data, filtr.field), ""),
                    FilterText(filtr.value))

\* ' AND '.join(conditions)
format_conditions(c, i, filters) ==
    \A k \in DOMAIN filters : RowMatches(c, i, filters[k])

----------------------------------------------------------------------------
(* _check_unicity *)

\* the filters built from the unique fields the record holds a value on, for
\* a resource whose mapping lists the unique fields fields
UnicityFiltersOf(fields, record) ==
    {Filter(f, record[f], COMPARISON_EQ) :
        f \in {g \in Range(fields) : PyGet(record, g) # JNull}}

\* the rows the unicity query can return (LIMIT 1 returns any one of them)
UnicityHitsOf(fields, c, record) ==
    IF Len(fields) = 0 \/ UnicityFiltersOf(fields, record) = {} THEN {}
    ELSE {i \in LiveIds(c) :
            /\ \E flt \in UnicityFiltersOf(fields, record) :
                  format_conditions(c, i, <<flt>>)
            /\ IF RecordId(record) # 0
                 THEN format_conditions(c, i,
                        <<Filter(id_field, RecordId(record), COMPARISON_NOT)>>)
                 ELSE TRUE}

\* the field UnicityError names: the loop variable after the loop
UnicityFieldOf(fields) == fields[Len(fields)]

\* the same for the resource of the record operations below
UnicityFilters(record) == UnicityFiltersOf(unique_fields, record)

UnicityHits(c, record) == UnicityHitsOf(unique_fields, c, record)

UnicityField == UnicityFieldOf(unique_fields)

----------------------------------------------------------------------------
(* Callers *)

IdleCall ==
    [op |-> "none", coll |-> "c1", id |-> 0, record |-> EmptyDict,
     hit |-> 0, exists |-> FALSE]

NoCall ==
    [caller |-> 0, op |-> "none", coll |-> "c1", id |-> 0, record |-> EmptyDict,
     out |-> "none", val |-> EmptyDict, field |-> ""]

Outcome(p, cl, out, val, field) ==
    [caller |-> p, op |-> cl.op, coll |-> cl.coll, id |-> cl.id,
     record |-> cl.record, out |-> out, val |-> val, field |-> field]

NewCall(op, c, i, record) ==
    [op |-> op, coll |-> c, id |-> i, record |-> record, hit |-> 0, exists |-> FALSE]

InFlight == {q \in Callers : pc[q] # "idle"}

\* resource.id_generator(): an identity no row and no running operation holds
FreshIds ==
    Ids \ (UNION {LiveIds(c) \cup TombIds(c) : c \in Collections}
            \cup {call[q].id : q \in InFlight})

id_generator == Min(FreshIds)

\* the identities a caller can name: not the one a running create generated
KnownIds == Ids \ {call[q].id : q \in {r \in InFlight : call[r].op = "create"}}

\* get() without record[resource.id_field] = record_id
GetRecord_without_id(c, i) ==
    DictSet(records[c][i].data, modified_field, records[c][i].last_modified)

\* the record get() returns for the live row (c, i)
GetRecord(c, i) ==
    DictSet(DictSet(records[c][i].data, id_field, i),
            modified_field, records[c][i].last_modified)

\* the operation returns or raises: the connect() scope is left
Finish(p, cl, out, val, field) ==
    /\ pc' = [pc EXCEPT ![p] = "idle"]
    /\ call' = [call EXCEPT ![p] = IdleCall]
    /\ last' = Outcome(p, cl, out, val, field)
    /\ UNCHANGED aux

\* the operation goes on to its next statement
Goto(p, label, cl) ==
    /\ pc' = [pc EXCEPT ![p] = label]
    /\ call' = [call EXCEPT ![p] = cl]
    /\ last' = NoCall
    /\ UNCHANGED aux

\* the sequences that list every element of S once
Perms(S) ==
    {s \in [1..Cardinality(S) -> S] : \A a, b \in DOMAIN s : a # b => s[a] # s[b]}

----------------------------------------------------------------------------
(* The statements *)

\* self._check_unicity(cursor, resource, user_id, record), up to the query
CheckUnicity(p, cl, label) ==
    IF UnicityHits(cl.coll, cl.record) = {}
      THEN Goto(p, label, cl)
      ELSE \E h \in UnicityHits(cl.coll, cl.record) :
              Goto(p, "unicity_get", [cl EXCEPT !.hit = h])

\* existing = self.get(resource, user_id, result['id']); raise UnicityError
UnicityGet(p) ==
    /\ pc[p] = "unicity_get"
    /\ IF Live(call[p].coll, call[p].hit)
         THEN Finish(p, call[p], "UnicityError",
                     GetRecord(call[p].coll, call[p].hit), UnicityField)
         ELSE Finish(p, call[p], "RecordNotFoundError", EmptyDict, "")
    /\ UNCHANGED <<now, records, deleted, issued>>

\* the row INSERT INTO records / UPDATE records writes, with the last_modified
\* the database assigns
WrittenRow(c, record) == [data |-> record, last_modified |-> bump_timestamp(c)]

\* create() and update() without record[resource.id_field] = ...
Returned_without_id(record, i, ts) == DictSet(record, modified_field, ts)

\* the record create() and update() return
Returned(record, i, ts) == DictSet(DictSet(record, id_field, i), modified_field, ts)

\* INSERT INTO records ... RETURNING, then COMMIT
InsertRecord(p) ==
    LET c == call[p].coll
        i == call[p].id
    IN  IF Live(c, i)
          THEN /\ Finish(p, call[p], "BackendError", EmptyDict, "")
               /\ UNCHANGED <<now, records, deleted, issued>>
          ELSE /\ bump_timestamp(c) <= MaxTs
               /\ records' = [records EXCEPT ![c][i] = WrittenRow(c, call[p].record)]
               /\ issued' = [issued EXCEPT ![c] = Append(@, records'[c][i].last_modified)]
               /\ Finish(p, call[p], "ok",
                         Returned(call[p].record, i, records'[c][i].last_modified), "")
               /\ UNCHANGED <<now, deleted>>

\* create(): placeholders, then the unicity check
CreateCheck(p, c, record) ==
    /\ pc[p] = "idle"
    /\ FreshIds # {}
    /\ CheckUnicity(p, NewCall("create", c, id_generator, record), "create_insert")
    /\ UNCHANGED <<now, records, deleted, issued>>

\* create(): cursor.execute(query, placeholders)
CreateInsert(p) ==
    /\ pc[p] = "create_insert"
    /\ InsertRecord(p)

\* create() of a resource whose mapping lists the unique fields fields, as one
\* step: _check_unicity with the get of the record found, then the INSERT
CreateOf(p, c, fields, record) ==
    LET cl == NewCall("create", c, id_generator, record)
    IN  /\ pc[p] = "idle"
        /\ FreshIds # {}
        /\ IF UnicityHitsOf(fields, c, record) = {}
             THEN /\ bump_timestamp(c) <= MaxTs
                  /\ records' = [records EXCEPT ![c][cl.id] = WrittenRow(c, record)]
                  /\ issued' = [issued EXCEPT ![c] =
                                   Append(@, records'[c][cl.id].last_modified)]
                  /\ Finish(p, cl, "ok",
                            Returned(record, cl.id, records'[c][cl.id].last_modified), "")
                  /\ UNCHANGED <<now, deleted>>
             ELSE /\ \E h \in UnicityHitsOf(fields, c, record) :
                        Finish(p, cl, "UnicityError", GetRecord(c, h),
                               UnicityFieldOf(fields))
                  /\ UNCHANGED <<now, records, deleted, issued>>

\* update(): the unicity check
UpdateCheck(p, c, i, record) ==
    /\ pc[p] = "idle"
    /\ i \in KnownIds
    /\ CheckUnicity(p, NewCall("update", c, i, record), "update_select")
    /\ UNCHANGED <<now, records, deleted, issued>>

\* update(): SELECT id FROM records WHERE id = ... ("Create or update ?")
UpdateSelect(p) ==
    /\ pc[p] = "update_select"
    /\ Goto(p, "update_write",
            [call[p] EXCEPT !.exists = Live(call[p].coll, call[p].id)])
    /\ UNCHANGED <<now, records, deleted, issued>>

\* UPDATE records SET data = ... RETURNING, then COMMIT; fetchone() is None
\* when the row is gone, and result['last_modified'] raises TypeError
UpdateRecord(p) ==
    LET c == call[p].coll
        i == call[p].id
    IN  IF ~Live(c, i)
          THEN /\ Finish(p, call[p], "TypeError", EmptyDict, "")
               /\ UNCHANGED <<now, records, deleted, issued>>
          ELSE /\ bump_timestamp(c) <= MaxTs
               /\ records' = [records EXCEPT ![c][i] = WrittenRow(c, call[p].record)]
               /\ issued' = [issued EXCEPT ![c] = Append(@, records'[c][i].last_modified)]
               /\ Finish(p, call[p], "ok",
                         Returned(call[p].record, i, records'[c][i].last_modified), "")
               /\ UNCHANGED <<now, deleted>>

\* update(): query_update if the row was found, query_create otherwise
UpdateWrite(p) ==
    /\ pc[p] = "update_write"
    /\ IF call[p].exists THEN UpdateRecord(p) ELSE InsertRecord(p)

\* the tombstone record delete() and delete_all() return
Tombstone(i, ts) ==
    [f \in {modified_field, id_field, deleted_field} |->
        IF f = modified_field THEN ts ELSE IF f = id_field THEN i ELSE TRUE]

\* a DELETE that removes no row
RecordsAfterDelete_keep(c, rows) == records

\* a delete without the INSERT INTO deleted
TombstonesAfterDelete_none(c, rows, ts) == deleted

\* a DELETE without the conditions on user_id and resource_name
RecordsAfterDelete_every_collection(c, rows) ==
    [d \in Collections |-> [i \in Ids |-> IF i \in rows THEN NoRec ELSE records[d][i]]]

\* DELETE FROM records ... RETURNING id: the table records without the rows
RecordsAfterDelete(c, rows) ==
    [records EXCEPT ![c] = [i \in Ids |-> IF i \in rows THEN NoRec ELSE records[c][i]]]

\* INSERT INTO deleted (id, user_id, resource_name) SELECT id ... FROM the
\* deleted rows: the table deleted with one tombstone per row, ts[i] being the
\* last_modified the database assigns to the tombstone of row i
TombstonesAfterDelete(c, rows, ts) ==
    [deleted EXCEPT ![c] = [i \in Ids |-> IF i \in rows THEN ts[i] ELSE deleted[c][i]]]

\* the rows DELETE ... WHERE id = %(record_id)s removes
DeleteRows(c, i) == {j \in LiveIds(c) : j = i}

\* delete(): WITH deleted_record AS (DELETE ... RETURNING id) INSERT INTO
\* deleted ..., then COMMIT; an identity that already has a tombstone
\* violates the key of the table deleted and the statement is rolled back;
\* with no row inserted, RecordNotFoundError leaves the scope uncommitted
Delete(p, c, i) ==
    /\ pc[p] = "idle"
    /\ i \in KnownIds
    /\ LET cl == NewCall("delete", c, i, EmptyDict)
           rows == DeleteRows(c, i)
           ts == [j \in rows |-> bump_timestamp(c)]
       IN  IF rows = {}
             THEN /\ Finish(p, cl, "RecordNotFoundError", EmptyDict, "")
                  /\ UNCHANGED <<now, records, deleted, issued>>
           ELSE IF \E j \in rows : Tombstoned(c, j)
             THEN /\ Finish(p, cl, "BackendError", EmptyDict, "")
                  /\ UNCHANGED <<now, records, deleted, issued>>
           ELSE /\ bump_timestamp(c) <= MaxTs
                /\ records' = RecordsAfterDelete(c, rows)
                /\ deleted' = TombstonesAfterDelete(c, rows, ts)
                /\ issued' = [issued EXCEPT ![c] = Append(@, ts[i])]
                /\ Finish(p, cl, "ok", Tombstone(i, ts[i]), "")
                /\ UNCHANGED now

\* the rows the DELETE of delete_all() removes
DeleteAllRows(c, filters) == {i \in LiveIds(c) : format_conditions(c, i, filters)}

\* results = cursor.fetchmany(self._max_fetch_size)
fetchmany(rows, size) == SubSeq(rows, 1, IF Len(rows) < size THEN Len(rows) ELSE size)

\* delete_all(): one statement deletes every matching row and inserts its
\* tombstone, each tombstone with a last_modified of its own, in the order the
\* DELETE returns the rows; then COMMIT
DeleteAll(p, c, filters) ==
    /\ pc[p] = "idle"
    /\ LET cl == [NewCall("delete_all", c, 0, EmptyDict) EXCEPT !.hit = Len(filters)]
           rows == DeleteAllRows(c, filters)
       IN  IF \E i \in rows : Tombstoned(c, i)
             THEN /\ Finish(p, cl, "BackendError", EmptyDict, "")
                  /\ UNCHANGED <<now, records, deleted, issued>>
             ELSE /\ rows # {} => bump_timestamp(c) <= MaxTs
                  /\ \E order \in Perms(rows) :
                       LET ts == [i \in rows |->
                                   bump_timestamp(c)
                                     + (CHOOSE k \in DOMAIN order : order[k] = i) - 1]
                       IN  /\ records' = RecordsAfterDelete(c, rows)
                           /\ deleted' = TombstonesAfterDelete(c, rows, ts)
                           /\ issued' = [issued EXCEPT ![c] =
                                 @ \o [k \in DOMAIN order |-> ts[order[k]]]]
                           /\ Finish(p, cl, "ok",
                                fetchmany([k \in DOMAIN order |->
                                             Tombstone(order[k], ts[order[k]])],
                                          max_fetch_size), "")
                  /\ UNCHANGED now

\* get() without the test of cursor.rowcount: fetchone() is None for a
\* missing row and result['data'] raises TypeError
Get_without_rowcount_test(p, c, i) ==
    /\ pc[p] = "idle"
    /\ i \in KnownIds
    /\ LET cl == NewCall("get", c, i, EmptyDict)
       IN  IF ~Live(c, i)
             THEN Finish(p, cl, "TypeError", EmptyDict, "")
             ELSE Finish(p, cl, "ok", GetRecord(c, i), "")
    /\ UNCHANGED <<now, records, deleted, issued>>

\* get(): SELECT ... FROM records WHERE id = ...
Get(p, c, i) ==
    /\ pc[p] = "idle"
    /\ i \in KnownIds
    /\ LET cl == NewCall("get", c, i, EmptyDict)
       IN  IF ~Live(c, i)
             THEN Finish(p, cl, "RecordNotFoundError", EmptyDict, "")
             ELSE Finish(p, cl, "ok", GetRecord(c, i), "")
    /\ UNCHANGED <<now, records, deleted, issued>>

\* collection_timestamp(): SELECT as_epoch(resource_timestamp(...))
CollectionTimestamp(p, c) ==
    /\ pc[p] = "idle"
    /\ Finish(p, NewCall("collection_timestamp", c, 0, EmptyDict), "ok",
              resource_timestamp(c), "")
    /\ UNCHANGED <<now, records, deleted, issued>>

----------------------------------------------------------------------------
(* get_all *)

COMPARISON_GT == ">"
COMPARISON_LT == "<"

\* limit=None
NoLimit == -1

\* the place of a text in the collation of the database, for the texts the
\* payloads hold: the empty text first, digits before letters
Collate(text) ==
    CASE text = "" -> 0
      [] text = "1" -> 1
      [] text = "2" -> 2
      [] text = "3" -> 3
      [] text = "4" -> 4
      [] text = "5" -> 5
      [] text = "a" -> 6

\* where ORDER BY puts SQL NULL: after every value when ascending, before
\* every value when descending
NullRank == 7

\* a comparison of two numbers, or of two texts by their place in the collation
SqlCompareOrdered(sql_operator, lhs, rhs) ==
    CASE sql_operator = "=" -> lhs = rhs
      [] sql_operator = "<>" -> lhs # rhs
      [] sql_operator = ">" -> lhs > rhs
      [] sql_operator = "<" -> lhs < rhs

\* a row of the query: SELECT id, last_modified, data FROM records
LiveRow(c, i) ==
    [id |-> i, last_modified |-> records[c][i].last_modified, data |-> records[c][i].data]

\* json.dumps({deleted_field: True}), the data of every row read from deleted
fake_deleted == [f \in {deleted_field} |-> TRUE]

\* a row of the query: SELECT id, last_modified, fake_deleted.data FROM deleted
DeletedRow(c, i) == [id |-> i, last_modified |-> deleted[c][i], data |-> fake_deleted]

\* whether a row of the query satisfies one rendered condition
RowSatisfies(row, filtr) ==
    IF filtr.field = id_field
        THEN SqlCompareOrdered(SqlOperator(filtr.operator), row.id, filtr.value)
    ELSE IF filtr.field = modified_field
        THEN SqlCompareOrdered(SqlOperator(filtr.operator), row.last_modified, filtr.value)
    ELSE SqlCompareOrdered(SqlOperator(filtr.operator),
                           Collate(Coalesce(JsonbText(row.data, filtr.field), "")),
                           Collate(FilterText(filtr.value)))

\* ' AND '.join(conditions), on a row of the query; no condition when the
\* list of filters is empty
Conditions(row, filters) == \A k \in DOMAIN filters : RowSatisfies(row, filters[k])

\* _format_pagination: ' OR '.join of the rules, each rule a list of filters;
\* no WHERE when the list of rules is empty
Pagination(row, pagination_rules) ==
    \/ Len(pagination_rules) = 0
    \/ \E k \in DOMAIN pagination_rules : Conditions(row, pagination_rules[k])

\* the rows of the collection in records
RecordRows(c) == {LiveRow(c, i) : i \in {j \in DOMAIN records[c] : Live(c, j)}}

\* the rows of the collection in deleted
TombstoneRows(c) == {DeletedRow(c, i) : i \in {j \in DOMAIN deleted[c] : Tombstoned(c, j)}}

\* total_filtered: SELECT COUNT(id) FROM records WHERE ... conditions_filter
total_filtered(c, filters) ==
    Cardinality({row \in RecordRows(c) : Conditions(row, filters)})

\* collection_filtered: the matching rows of records, LIMIT max_fetch_size;
\* without ORDER BY the LIMIT keeps any max_fetch_size of them
collection_filtered(c, filters) ==
    LET matching == {row \in RecordRows(c) : Conditions(row, filters)}
    IN  {kept \in SUBSET matching :
            Cardinality(kept) = Min({max_fetch_size, Cardinality(matching)})}

\* get_all() without safeholders['deleted_limit'] = 'LIMIT 0'
filtered_deleted_without_limit(c, filters, include_deleted) ==
    {row \in TombstoneRows(c) : Conditions(row, filters)}

\* filtered_deleted: the matching rows of deleted, LIMIT 0 unless include_deleted
filtered_deleted(c, filters, include_deleted) ==
    IF ~include_deleted THEN {}
    ELSE {row \in TombstoneRows(c) : Conditions(row, filters)}

\* paginated_records JOIN all_records: the rows of all_records whose id is the
\* id of a row that satisfies the pagination rules
paginated_records(all_records, pagination_rules) ==
    {a \in all_records :
        \E r \in all_records : r.id = a.id /\ Pagination(r, pagination_rules)}

\* _format_sorting: the value a row is ordered by for one sort, as a number
\* that grows along the order ORDER BY asks for
SortKey(row, sort) ==
    LET rank == IF sort.field = id_field THEN row.id
                ELSE IF sort.field = modified_field THEN row.last_modified
                ELSE IF JsonbText(row.data, sort.field) = SqlNull THEN NullRank
                ELSE Collate(JsonbText(row.data, sort.field))
    IN  IF sort.direction > 0 THEN rank ELSE 0 - rank

\* row a comes strictly before row b under ORDER BY sorts
SortsBefore(a, b, sorting) ==
    \E k \in DOMAIN sorting :
        /\ \A j \in 1..(k - 1) : SortKey(a, sorting[j]) = SortKey(b, sorting[j])
        /\ SortKey(a, sorting[k]) < SortKey(b, sorting[k])

\* the orders in which the statement can return the rows: any order that
\* agrees with ORDER BY (rows that tie, and all rows without sorting, come in
\* any order)
Sorted(rows, sorting) ==
    {s \in Perms(rows) :
        \A a, b \in DOMAIN s : a < b => ~SortsBefore(s[b], s[a], sorting)}

\* LIMIT %(pagination_limit)s, rendered only when limit is truthy
pagination_limit(s, limit) ==
    IF limit = NoLimit \/ limit = 0 THEN s
    ELSE SubSeq(s, 1, Min({limit, Len(s)}))

\* the record built from a result row
ResultRecord(row) ==
    DictSet(DictSet(row.data, id_field, row.id), modified_field, row.last_modified)

\* what get_all returns for the fetched rows: (records, count_total)
get_all_return(results, count_total) ==
    IF Len(results) = 0 THEN <<<<>>, 0>>
    ELSE <<[k \in DOMAIN results |-> ResultRecord(results[k])], count_total>>

GetAllArgs(filters, sorting, pagination_rules, limit, include_deleted) ==
    [filters |-> filters, sorting |-> sorting, pagination_rules |-> pagination_rules,
     limit |-> limit, include_deleted |-> include_deleted]

\* get_all(): one SELECT in a read-only scope, then fetchmany
GetAll(p, c, args) ==
    /\ pc[p] = "idle"
    /\ \E kept \in collection_filtered(c, args.filters) :
         LET all_records ==
                 filtered_deleted(c, args.filters, args.include_deleted) \cup kept
         IN  \E s \in Sorted(paginated_records(all_records, args.pagination_rules),
                             args.sorting) :
                 last' = Outcome(p, NewCall("get_all", c, 0, args), "ok",
                                 get_all_return(
                                     fetchmany(pagination_limit(s, args.limit),
                                               max_fetch_size),
                                     total_filtered(c, args.filters)), "")
    /\ UNCHANGED <<now, records, deleted, issued, pc, call>>
    /\ UNCHANGED fixed

----------------------------------------------------------------------------
(* The SQL text of _format_conditions, _format_pagination, _format_sorting *)

\* sep.join(texts)
RECURSIVE Join(_, _)
Join(texts, sep) ==
    IF Len(texts) = 0 THEN ""
    ELSE IF Len(texts) = 1 THEN texts[1]
    ELSE texts[1] \o sep \o Join(Tail(texts), sep)

\* the lists of a list of lists, one after the other
RECURSIVE Flatten(_)
Flatten(lists) ==
    IF Len(lists) = 0 THEN <<>> ELSE lists[1] \o Flatten(Tail(lists))

\* '%s_field_%s' % (prefix, i) and '%s_value_%s' % (prefix, i)
HolderName(prefix, what, i) == prefix \o "_" \o what \o "_" \o ToString(i)

\* a renderer that writes the name of a payload field into the SQL text
ConditionField_concatenated(filtr, i, prefix) ==
    IF filtr.field = id_field THEN "id"
    ELSE IF filtr.field = modified_field THEN "as_epoch(last_modified)"
    ELSE "coalesce(data->>'" \o filtr.field \o "', '')"

\* sql_field of the i-th filter
ConditionField(filtr, i, prefix) ==
    IF filtr.field = id_field THEN "id"
    ELSE IF filtr.field = modified_field THEN "as_epoch(last_modified)"
    ELSE "coalesce(data->>%(" \o HolderName(prefix, "field", i) \o ")s, '')"

\* cond = "%s %s %%(%s)s" % (sql_field, sql_operator, value_holder)
ConditionSql(filtr, i, prefix) ==
    ConditionField(filtr, i, prefix) \o " " \o SqlOperator(filtr.operator)
        \o " %(" \o HolderName(prefix, "value", i) \o ")s"

\* the holders of the i-th filter: the field name of a payload field, and the
\* value
ConditionHolders(filtr, i, prefix) ==
    (IF filtr.field \in {id_field, modified_field} THEN <<>>
     ELSE <<<<HolderName(prefix, "field", i), filtr.field>>>>)
    \o <<<<HolderName(prefix, "value", i),
           IF filtr.field \in {id_field, modified_field} THEN filtr.value
           ELSE FilterText(filtr.value)>>>>

\* _format_conditions(resource, filters, prefix): (safe_sql, holders)
FormatConditions(filters, prefix) ==
    [sql |-> Join([k \in DOMAIN filters |-> ConditionSql(filters[k], k - 1, prefix)],
                  " AND "),
     holders |-> Flatten([k \in DOMAIN filters |->
                            ConditionHolders(filters[k], k - 1, prefix)])]

\* _format_pagination(resource, pagination_rules): (safe_sql, placeholders)
FormatPagination(pagination_rules) ==
    LET parts == [k \in DOMAIN pagination_rules |->
                    FormatConditions(pagination_rules[k],
                                     "rules_" \o ToString(k - 1))]
    IN  [sql |-> Join([k \in DOMAIN parts |-> "(" \o parts[k].sql \o ")"], " OR "),
         holders |-> Flatten([k \in DOMAIN parts |-> parts[k].holders])]

\* sql_sort of the i-th sort
SortSql(sort, i) ==
    (IF sort.field = id_field THEN "id"
     ELSE IF sort.field = modified_field THEN "last_modified"
     ELSE "data->>%(" \o HolderName("sort", "field", i) \o ")s")
    \o " " \o (IF sort.direction > 0 THEN "ASC" ELSE "DESC")

\* _format_sorting(resource, sorting): (safe_sql, holders)
FormatSorting(sorting) ==
    [sql |-> "ORDER BY "
               \o Join([k \in DOMAIN sorting |-> SortSql(sorting[k], k - 1)], ", "),
     holders |-> Flatten([k \in DOMAIN sorting |->
                    IF sorting[k].field \in {id_field, modified_field} THEN <<>>
                    ELSE <<<<HolderName("sort", "field", k - 1), sorting[k].field>>>>])]

\* what a renderer is given
RenderInput(renderer, arg) == [renderer |-> renderer, arg |-> arg]

\* one of the three renderers is called; get_all and delete_all pass their
\* filters with the prefix 'filters'
Render(input) ==
    /\ Len(rendered) < 2
    /\ LET out == CASE input.renderer = "conditions" ->
                          FormatConditions(input.arg, "filters")
                     [] input.renderer = "pagination" -> FormatPagination(input.arg)
                     [] input.renderer = "sorting" -> FormatSorting(input.arg)
       IN  rendered' = Append(rendered,
                              [input |-> input, sql |-> out.sql, holders |-> out.holders])
    /\ UNCHANGED <<now, records, deleted, pc, call, last, issued, max_fetch_size, pages>>
    /\ UNCHANGED <<admin, connections>>

----------------------------------------------------------------------------
(* initialize_schema *)

schema_version == 6

Versions == 1..schema_version

\* a database without the tables
NoSchema == [tables |-> FALSE, versions |-> {}, others |-> 0]

\* a database whose metadata holds the version rows vs and n other rows
Metadata(vs, n) == [tables |-> TRUE, versions |-> vs, others |-> n]

\* a guess that takes every database without a version row for version 1
VersionRow_without_flush_test(db) ==
    IF db.versions # {} THEN Max(db.versions) ELSE 1

\* _get_installed_version, second scope: the greatest version row, or the
\* guess made when metadata holds no version row
VersionRow(db) ==
    IF db.versions # {} THEN Max(db.versions)
    ELSE IF db.others = 0 THEN schema_version
    ELSE 1

\* _get_installed_version as one read; None is 0
InstalledVersion(db) == IF ~db.tables THEN 0 ELSE VersionRow(db)

\* a list of migrations that starts after the installed version
migrations_skipping(version) ==
    [k \in 1..(schema_version - version - 1) |-> <<version + k, version + k + 1>>]

\* [(v, v + 1) for v in range(version, self.schema_version)]
migrations(version) ==
    [k \in 1..(schema_version - version) |-> <<version + k - 1, version + k>>]

IdleRun == [pc |-> "idle", first |-> TRUE, todo |-> <<>>]

\* a script executed by process p while the installed version was what
\* InstalledVersion gives; schema.sql is the script <<0, schema_version>>
Script(p, from, to) ==
    [by |-> p, from |-> from, to |-> to, installed |-> InstalledVersion(schema)]

\* schema.sql: the tables, and the version row of schema_version
SchemaSql(db) == Metadata(db.versions \cup {schema_version}, db.others)

\* migrations/migration_00v_00w.sql: the version row of w
MigrationSql(db, migration) ==
    Metadata(db.versions \cup {migration[2]}, db.others)

SetRun(p, run) ==
    /\ runs' = [runs EXCEPT ![p] = run]
    /\ UNCHANGED store
    /\ UNCHANGED connections

\* initialize_schema is called
InitializeSchema(p) ==
    /\ runs[p].pc = "idle"
    /\ SetRun(p, [runs[p] EXCEPT !.pc = "tables"])
    /\ UNCHANGED <<schema, executed>>

\* what initialize_schema does with the version _get_installed_version returns
Resolve(p, version) ==
    IF runs[p].first
      THEN IF version = 0
             THEN SetRun(p, [runs[p] EXCEPT !.pc = "check"])
           ELSE IF Len(migrations(version)) = 0
             THEN SetRun(p, [runs[p] EXCEPT !.pc = "done"])
           ELSE SetRun(p, [pc |-> "tables", first |-> FALSE,
                           todo |-> migrations(version)])
      ELSE IF Head(runs[p].todo)[1] = version
             THEN SetRun(p, [runs[p] EXCEPT !.pc = "migrate"])
             ELSE SetRun(p, [runs[p] EXCEPT !.pc = "aborted"])

\* _get_installed_version, first scope: is there a table metadata
GetVersionTables(p) ==
    /\ runs[p].pc = "tables"
    /\ IF ~schema.tables
         THEN Resolve(p, 0)
         ELSE SetRun(p, [runs[p] EXCEPT !.pc = "version"])
    /\ UNCHANGED <<schema, executed>>

\* _get_installed_version, second scope: the version row
GetVersionRow(p) ==
    /\ runs[p].pc = "version"
    /\ Resolve(p, VersionRow(schema))
    /\ UNCHANGED <<schema, executed>>

\* _check_database_encoding and _check_database_timezone, on a database
\* created with the UTF-8 encoding
CheckDatabase(p) ==
    /\ runs[p].pc = "check"
    /\ SetRun(p, [runs[p] EXCEPT !.pc = "create"])
    /\ UNCHANGED <<schema, executed>>

\* self._execute_sql_file('schema.sql'); return
CreateSchema(p) ==
    /\ runs[p].pc = "create"
    /\ executed' = Append(executed, Script(p, 0, schema_version))
    /\ schema' = SchemaSql(schema)
    /\ SetRun(p, [runs[p] EXCEPT !.pc = "done"])

\* self._execute_sql_file of the migration at the head of the list, then the
\* next turn of the loop
Migrate(p) ==
    /\ runs[p].pc = "migrate"
    /\ LET migration == Head(runs[p].todo)
       IN  /\ executed' = Append(executed, Script(p, migration[1], migration[2]))
           /\ schema' = MigrationSql(schema, migration)
           /\ SetRun(p, [runs[p] EXCEPT
                            !.pc = IF Len(runs[p].todo) = 1 THEN "done" ELSE "tables",
                            !.todo = Tail(runs[p].todo)])

\* flush(): DELETE FROM deleted; DELETE FROM records; DELETE FROM metadata;
\* without the tables the statement fails and nothing changes
Flush ==
    /\ IF schema.tables
         THEN /\ schema' = Metadata({}, 0)
              /\ records' = [c \in Collections |-> [i \in Ids |-> NoRec]]
              /\ deleted' = [c \in Collections |-> [i \in Ids |-> NoTomb]]
         ELSE UNCHANGED <<schema, records, deleted>>
    /\ UNCHANGED <<now, pc, call, last, issued, max_fetch_size, pages, rendered>>
    /\ UNCHANGED <<runs, executed>>
    /\ UNCHANGED connections

----------------------------------------------------------------------------
(* PostgreSQLClient.connect *)

PoolSize == 2
MaxScopes == 3

\* the connections of the pool (minconn = maxconn = pool_size)
ConnIds == 1..PoolSize

\* conn = None: pool.getconn() raised
NoConn == 0

\* a pool with every connection in it; used is the set of connections the
\* pool counts as checked out, closed the set of those whose closed flag is
\* set, pending the statements of the open transaction of each connection
IdlePool(always_close) ==
    [used |-> {}, closed |-> {}, pending |-> [k \in ConnIds |-> 0],
     always_close |-> always_close]

\* a connect() scope of an operation: where it is, and what happened in it
Frame(op, readonly, conn, at, error) ==
    [op |-> op, readonly |-> readonly, conn |-> conn, at |-> at, error |-> error,
     body |-> "running", wrote |-> 0, committed |-> 0, commit_calls |-> 0,
     rollbacks |-> 0, lost |-> FALSE, out |-> "none"]

Top(p) == scopes[p][Len(scopes[p])]

\* the number of scopes entered so far
Entered ==
    Len(exited)
        + Cardinality({pn \in Callers \X (1..MaxScopes) : pn[2] <= Len(scopes[pn[1]])})

\* the enclosing scopes with the innermost one changed to frame
WithTop(stack, frame) == [stack EXCEPT ![Len(stack)] = frame]

SetTop(p, frame) == scopes' = [scopes EXCEPT ![p] = WithTop(@, frame)]

\* conn = self.pool.getconn(); conn.autocommit = readonly; cursor =
\* conn.cursor(): the scope is entered below the scopes of stack.  getconn
\* raises PoolError when every connection is checked out; a connection whose
\* closed flag is set raises when it is used; both are psycopg2.Error
Connect(p, stack, op, readonly) ==
    IF pool.used = ConnIds
      THEN /\ scopes' = [scopes EXCEPT ![p] =
                 Append(stack, Frame(op, readonly, NoConn, "except", TRUE))]
           /\ UNCHANGED pool
      ELSE \E k \in ConnIds \ pool.used :
             /\ pool' = [pool EXCEPT !.used = @ \cup {k}]
             /\ scopes' = [scopes EXCEPT ![p] =
                   Append(stack,
                          IF k \in pool.closed
                            THEN Frame(op, readonly, k, "except", TRUE)
                            ELSE Frame(op, readonly, k, "body", FALSE))]

\* a statement raised psycopg2.Error
Raised(frame) == [frame EXCEPT !.at = "except", !.error = TRUE, !.body = "db_error"]

\* a scope whose exit commits whatever left the body
DomainError_committing(frame, out) ==
    [frame EXCEPT !.at = "commit", !.body = "domain_error", !.out = out]

\* an exception that is not a psycopg2.Error leaves the body
DomainError(frame, out) ==
    [frame EXCEPT !.at = "finally", !.body = "domain_error", !.out = out]

\* an operation starts: with self.connect(...) as cursor
Call(p, op) ==
    /\ Len(scopes[p]) = 0
    /\ Entered < MaxScopes
    /\ Connect(p, scopes[p], op, op = "get")
    /\ UNCHANGED exited
    /\ UNCHANGED <<store, admin>>

\* the body of get(): the SELECT, and RecordNotFoundError when it finds no
\* row; the row count is the database's answer
BodyGet(p) ==
    /\ Len(scopes[p]) > 0
    /\ Top(p).op = "get" /\ Top(p).at = "body"
    /\ IF Top(p).conn \in pool.closed
         THEN SetTop(p, Raised(Top(p)))
         ELSE \E rowcount \in 0..1 :
                IF rowcount = 0
                  THEN SetTop(p, DomainError(Top(p), "RecordNotFoundError"))
                  ELSE SetTop(p, [Top(p) EXCEPT !.at = "commit", !.body = "normal"])
    /\ UNCHANGED <<pool, exited>>
    /\ UNCHANGED <<store, admin>>

\* the body of create(), _check_unicity: the SELECT, and on a hit
\* existing = self.get(...), which enters a scope of its own
BodyCheckUnicity(p) ==
    /\ Len(scopes[p]) > 0
    /\ Top(p).op = "create" /\ Top(p).at = "body"
    /\ IF Top(p).conn \in pool.closed
         THEN SetTop(p, Raised(Top(p))) /\ UNCHANGED pool
         ELSE \E rowcount \in 0..1 :
                IF rowcount = 0
                  THEN SetTop(p, [Top(p) EXCEPT !.at = "insert"]) /\ UNCHANGED pool
                  ELSE /\ Entered < MaxScopes
                       /\ Connect(p, WithTop(scopes[p],
                                             [Top(p) EXCEPT !.at = "unicity_get"]),
                                  "get", TRUE)
    /\ UNCHANGED exited
    /\ UNCHANGED <<store, admin>>

\* the body of create(): the INSERT, which the database can refuse
BodyInsert(p) ==
    /\ Len(scopes[p]) > 0
    /\ Top(p).op = "create" /\ Top(p).at = "insert"
    /\ IF Top(p).conn \in pool.closed
         THEN SetTop(p, Raised(Top(p))) /\ UNCHANGED pool
         ELSE \E refused \in BOOLEAN :
                IF refused
                  THEN SetTop(p, Raised(Top(p))) /\ UNCHANGED pool
                  ELSE /\ SetTop(p, [Top(p) EXCEPT !.at = "commit", !.body = "normal",
                                                   !.wrote = @ + 1])
                       /\ pool' = [pool EXCEPT !.pending[Top(p).conn] = @ + 1]
    /\ UNCHANGED exited
    /\ UNCHANGED <<store, admin>>

\* the body of delete(): the DELETE ... INSERT INTO deleted, and
\* RecordNotFoundError when it inserted no row
BodyDelete(p) ==
    /\ Len(scopes[p]) > 0
    /\ Top(p).op = "delete" /\ Top(p).at = "body"
    /\ IF Top(p).conn \in pool.closed
         THEN SetTop(p, Raised(Top(p))) /\ UNCHANGED pool
         ELSE \E answer \in {"refused", "no row", "deleted"} :
                IF answer = "refused"
                  THEN SetTop(p, Raised(Top(p))) /\ UNCHANGED pool
                ELSE IF answer = "no row"
                  THEN /\ SetTop(p, DomainError(Top(p), "RecordNotFoundError"))
                       /\ UNCHANGED pool
                ELSE /\ SetTop(p, [Top(p) EXCEPT !.at = "commit", !.body = "normal",
                                                 !.wrote = @ + 1])
                     /\ pool' = [pool EXCEPT !.pending[Top(p).conn] = @ + 1]
    /\ UNCHANGED exited
    /\ UNCHANGED <<store, admin>>

\* if not readonly: conn.commit()
Commit(p) ==
    /\ Len(scopes[p]) > 0
    /\ Top(p).at = "commit"
    /\ IF Top(p).readonly
         THEN SetTop(p, [Top(p) EXCEPT !.at = "finally", !.out = "ok"])
              /\ UNCHANGED pool
         ELSE IF Top(p).conn \in pool.closed
           THEN SetTop(p, [Top(p) EXCEPT !.at = "except", !.error = TRUE,
                                        !.commit_calls = @ + 1])
                /\ UNCHANGED pool
           ELSE /\ SetTop(p, [Top(p) EXCEPT !.at = "finally", !.out = "ok",
                                            !.commit_calls = @ + 1,
                                            !.committed = pool.pending[Top(p).conn]])
                /\ pool' = [pool EXCEPT !.pending[Top(p).conn] = 0]
    /\ UNCHANGED exited
    /\ UNCHANGED <<store, admin>>

\* connect() without conn.rollback()
Except_without_rollback(p) ==
    /\ Len(scopes[p]) > 0
    /\ Top(p).at = "except"
    /\ SetTop(p, [Top(p) EXCEPT !.at = "finally", !.out = "BackendError",
                                !.lost = Top(p).conn \in pool.closed])
    /\ UNCHANGED <<pool, exited>>
    /\ UNCHANGED <<store, admin>>

\* except psycopg2.Error: rollback on a connection that is not closed, raise
\* BackendError
Except(p) ==
    /\ Len(scopes[p]) > 0
    /\ Top(p).at = "except"
    /\ IF Top(p).conn # NoConn /\ Top(p).conn \notin pool.closed
         THEN /\ SetTop(p, [Top(p) EXCEPT !.at = "finally", !.out = "BackendError",
                                          !.rollbacks = @ + 1])
              /\ pool' = [pool EXCEPT !.pending[Top(p).conn] = 0]
         ELSE /\ SetTop(p, [Top(p) EXCEPT !.at = "finally", !.out = "BackendError",
                                          !.lost = Top(p).conn # NoConn])
              /\ UNCHANGED pool
    /\ UNCHANGED exited
    /\ UNCHANGED <<store, admin>>

\* pool.putconn(conn, close): the pool counts the connection as checked out
\* no more; an open transaction is rolled back; with close the connection is
\* closed and the pool opens another in its place
putconn(k) ==
    [pool EXCEPT !.used = @ \ {k}, !.pending[k] = 0]

\* what the scope below goes on with when self.get(...) of _check_unicity
\* returns or raises: raise UnicityError(field, existing), or the exception
\* of get
AfterGet(frame, out) ==
    DomainError(frame, IF out = "ok" THEN "UnicityError" ELSE out)

\* finally: cursor.close(), and putconn on a connection that is not closed;
\* the scope is left
Finally(p) ==
    /\ Len(scopes[p]) > 0
    /\ Top(p).at = "finally"
    /\ pool' = IF Top(p).conn # NoConn /\ Top(p).conn \notin pool.closed
                 THEN putconn(Top(p).conn)
                 ELSE pool
    /\ exited' = Append(exited, [Top(p) EXCEPT !.at = "left"])
    /\ scopes' = [scopes EXCEPT ![p] =
          IF Len(@) = 1 THEN <<>>
          ELSE WithTop(SubSeq(@, 1, Len(@) - 1),
                       AfterGet(@[Len(@) - 1], Top(p).out))]
    /\ UNCHANGED <<store, admin>>

\* the server or the network closes a connection; the transaction that was
\* open on it is gone.  Without pooling (always_close) only a connection in
\* use can be found closed: every scope gets a new one
Disconnect(k) ==
    /\ k \notin pool.closed
    /\ k \in pool.used \/ ~pool.always_close
    /\ pool' = [pool EXCEPT !.closed = @ \cup {k}, !.pending[k] = 0]
    /\ UNCHANGED <<scopes, exited>>
    /\ UNCHANGED <<store, admin>>

----------------------------------------------------------------------------
\* the database clock advances
Tick ==
    /\ now < MaxTs
    /\ now' = now + 1
    /\ last' = NoCall
    /\ UNCHANGED <<records, deleted, pc, call, issued>>
    /\ UNCHANGED aux

----------------------------------------------------------------------------
(* Specifications *)

InitStore ==
    /\ now = 0
    /\ records = [c \in Collections |-> [i \in Ids |-> NoRec]]
    /\ deleted = [c \in Collections |-> [i \in Ids |-> NoTomb]]
    /\ pc = [p \in Callers |-> "idle"]
    /\ call = [p \in Callers |-> IdleCall]
    /\ last = NoCall
    /\ issued = [c \in Collections |-> <<>>]

\* no scope is open, nothing was rendered
InitConnections ==
    /\ pool = IdlePool(FALSE)
    /\ scopes = [p \in Callers |-> <<>>]
    /\ exited = <<>>
    /\ rendered = <<>>

\* no run of initialize_schema: the schema is installed
InitAdmin ==
    /\ schema = Metadata({schema_version}, 0)
    /\ runs = [p \in Callers |-> IdleRun]
    /\ executed = <<>>
    /\ InitConnections

Init ==
    /\ InitStore
    /\ max_fetch_size = MaxFetchSize
    /\ pages = <<>>
    /\ InitAdmin

\* the payloads and filters the callers pass
PayloadIds == 0..NumIds
Emails == {Absent, JNull, StrA, Str1, Num1}
Payloads == {MkRecord(pid, email) : pid \in PayloadIds, email \in Emails}
UpdatePayloads(i) == {MkRecord(pid, email) : pid \in {0, i}, email \in Emails}
FilterLists == {<<>>, <<Filter("email", StrA, COMPARISON_EQ)>>,
                <<Filter("email", Num1, COMPARISON_NOT)>>}

ConcEmails == {Absent, StrA}
ConcPayloads == {MkRecord(0, email) : email \in ConcEmails}
ConcUpdatePayloads(i) == {MkRecord(i, email) : email \in ConcEmails}

\* one caller: the operations run one after the other
Next ==
    \/ Tick
    \/ \E c \in MainColls, record \in Payloads : CreateCheck(1, c, record)
    \/ CreateInsert(1)
    \/ \E c \in MainColls, i \in Ids : \E record \in UpdatePayloads(i) :
          UpdateCheck(1, c, i, record)
    \/ UpdateSelect(1)
    \/ UpdateWrite(1)
    \/ UnicityGet(1)
    \/ \E c \in MainColls, i \in Ids : Delete(1, c, i)
    \/ \E c \in MainColls, filters \in FilterLists : DeleteAll(1, c, filters)
    \/ \E c \in MainColls, i \in Ids : Get(1, c, i)
    \/ \E c \in MainColls : CollectionTimestamp(1, c)

Spec == Init /\ [][Next]_vars

\* several callers: their statements interleave
NextConc ==
    \/ Tick
    \/ \E p \in Callers, c \in MainColls, record \in ConcPayloads : CreateCheck(p, c, record)
    \/ \E p \in Callers : CreateInsert(p)
    \/ \E p \in Callers, c \in MainColls, i \in Ids : \E record \in ConcUpdatePayloads(i) :
          UpdateCheck(p, c, i, record)
    \/ \E p \in Callers : UpdateSelect(p)
    \/ \E p \in Callers : UpdateWrite(p)
    \/ \E p \in Callers : UnicityGet(p)
    \/ \E p \in Callers, c \in MainColls, i \in Ids : Delete(p, c, i)
    \/ \E p \in Callers, c \in MainColls : DeleteAll(p, c, <<>>)
    \/ \E p \in Callers, c \in MainColls, i \in Ids : Get(p, c, i)
    \/ \E p \in Callers, c \in MainColls : CollectionTimestamp(p, c)

SpecConc == Init /\ [][NextConc]_vars

\* the queries: get_all between creates, updates and deletes of one caller
Sort(field, direction) == [field |-> field, direction |-> direction]

FetchSizes == 1..(MaxFetchSize + 1)
QueryEmails == {Absent, StrA}
QueryPayloads == {MkRecord(0, email) : email \in QueryEmails}
QueryUpdatePayloads(i) == {MkRecord(i, email) : email \in QueryEmails}
QueryFilters == {<<>>, <<Filter("email", StrA, COMPARISON_EQ)>>}
QuerySortings == {<<>>, <<Sort(modified_field, -1)>>}
QueryRules == {<<>>, <<<<Filter(modified_field, 1, COMPARISON_LT)>>>>,
               <<<<Filter(id_field, 1, COMPARISON_GT)>>>>}
QueryLimits == {NoLimit, 0, 1}
QueryArgs ==
    {GetAllArgs(filters, sorting, pagination_rules, limit, include_deleted) :
        filters \in QueryFilters, sorting \in QuerySortings,
        pagination_rules \in QueryRules, limit \in QueryLimits,
        include_deleted \in BOOLEAN}

InitQuery ==
    /\ InitStore
    /\ max_fetch_size \in FetchSizes
    /\ pages = <<>>
    /\ InitAdmin

NextQuery ==
    \/ \E c \in MainColls, record \in QueryPayloads : CreateCheck(1, c, record)
    \/ CreateInsert(1)
    \/ \E c \in MainColls, i \in Ids : \E record \in QueryUpdatePayloads(i) :
          UpdateCheck(1, c, i, record)
    \/ UpdateSelect(1)
    \/ UpdateWrite(1)
    \/ UnicityGet(1)
    \/ \E c \in MainColls, i \in Ids : Delete(1, c, i)
    \/ \E c \in MainColls, args \in QueryArgs : GetAll(1, c, args) /\ UNCHANGED pages

SpecQuery == InitQuery /\ [][NextQuery]_vars

\* a keyset traversal of a collection of five records that hold pairwise
\* different numbers on field x: pages of two, sorted by x ascending, each
\* page after the first asked with the rule x > the last x seen
Num2 == "2"
Num3 == "3"
Num4 == "4"
Num5 == "5"
PageIds == {1, 2, 3, 4, 5}
PageValues == {Num1, Num2, Num3, Num4, Num5}
PageFetchSizes == {2, 5}
NumPages == 3

PageTable(x) == [i \in PageIds |-> [data |-> [f \in {"x"} |-> x[i]], last_modified |-> i]]
NoPageTable == [i \in PageIds |-> NoRec]

InitPage ==
    /\ now = 5
    /\ \E x \in [PageIds -> PageValues] :
          /\ \A i, j \in PageIds : i # j => x[i] # x[j]
          /\ records = [c \in Collections |->
                           IF c = "c1" THEN PageTable(x) ELSE NoPageTable]
    /\ deleted = [c \in Collections |-> [i \in PageIds |-> NoTomb]]
    /\ pc = [p \in Callers |-> "idle"]
    /\ call = [p \in Callers |-> IdleCall]
    /\ last = NoCall
    /\ issued = [c \in Collections |-> IF c = "c1" THEN <<1, 2, 3, 4, 5>> ELSE <<>>]
    /\ max_fetch_size \in PageFetchSizes
    /\ pages = <<>>
    /\ InitAdmin

\* the x of the last record of the last page received
LastSeen == pages[Len(pages)][Len(pages[Len(pages)])]["x"]

PageArgs ==
    GetAllArgs(<<>>, <<Sort("x", 1)>>,
               IF Len(pages) = 0 THEN <<>>
               ELSE <<<<Filter("x", LastSeen, COMPARISON_GT)>>>>,
               2, FALSE)

\* the client asks for the next page, until a page comes back empty
Page ==
    /\ Len(pages) < NumPages
    /\ Len(pages) > 0 => Len(pages[Len(pages)]) > 0
    /\ GetAll(1, "c1", PageArgs)
    /\ pages' = Append(pages, last'.val[1])

NextPage == Page

SpecPage == InitPage /\ [][NextPage]_vars

\* one caller on two collections, (tenant, resource) pairs that can hold the
\* same identity
IsolationArgs ==
    {GetAllArgs(filters, <<>>, <<>>, NoLimit, TRUE) : filters \in QueryFilters}

\* the cap holds the records of a collection
InitIsolation ==
    /\ InitStore
    /\ max_fetch_size = NumIds
    /\ pages = <<>>
    /\ InitAdmin

NextIsolation ==
    \/ \E c \in Collections, record \in QueryPayloads : CreateCheck(1, c, record)
    \/ CreateInsert(1)
    \/ \E c \in Collections, i \in Ids : \E record \in QueryUpdatePayloads(i) :
          UpdateCheck(1, c, i, record)
    \/ UpdateSelect(1)
    \/ UpdateWrite(1)
    \/ UnicityGet(1)
    \/ \E c \in Collections, i \in Ids : Delete(1, c, i)
    \/ \E c \in Collections : DeleteAll(1, c, <<>>)
    \/ \E c \in Collections, i \in Ids : Get(1, c, i)
    \/ \E c \in Collections : CollectionTimestamp(1, c)
    \/ \E c \in Collections, args \in IsolationArgs :
          GetAll(1, c, args) /\ UNCHANGED pages

SpecIsolation == InitIsolation /\ [][NextIsolation]_vars

\* a resource with two unique fields, listed in either order; the records
\* hold a value on any of them
UniqueFieldOrders == {<<"email", "phone">>, <<"phone", "email">>}
UnicityValues == {Absent, StrA, Str1}
UnicityPayloads ==
    {[f \in (IF email = Absent THEN {} ELSE {"email"})
            \cup (IF phone = Absent THEN {} ELSE {"phone"})
        |-> IF f = "email" THEN email ELSE phone] :
        email \in UnicityValues, phone \in UnicityValues}

NextUnicity ==
    \/ Tick
    \/ \E c \in MainColls, fields \in UniqueFieldOrders, record \in UnicityPayloads :
          CreateOf(1, c, fields, record)

SpecUnicity == Init /\ [][NextUnicity]_vars

\* the same traversal on a collection of three records, one of which lacks
\* the field x, with a cap that holds the whole collection
SparseIds == {1, 2, 3}

SparseTable(x, lacking) ==
    [i \in SparseIds |->
        [data |-> IF i = lacking THEN EmptyDict ELSE [f \in {"x"} |-> x[i]],
         last_modified |-> i]]

InitSparse ==
    /\ now = 3
    /\ \E x \in [SparseIds -> PageValues], lacking \in SparseIds :
          /\ \A i, j \in SparseIds : i # j => x[i] # x[j]
          /\ x[lacking] = Num1
          /\ records = [c \in Collections |->
                           IF c = "c1" THEN SparseTable(x, lacking)
                           ELSE [i \in SparseIds |-> NoRec]]
    /\ deleted = [c \in Collections |-> [i \in SparseIds |-> NoTomb]]
    /\ pc = [p \in Callers |-> "idle"]
    /\ call = [p \in Callers |-> IdleCall]
    /\ last = NoCall
    /\ issued = [c \in Collections |-> IF c = "c1" THEN <<1, 2, 3>> ELSE <<>>]
    /\ max_fetch_size \in {3, 5}
    /\ pages = <<>>
    /\ InitAdmin

SpecSparse == InitSparse /\ [][NextPage]_vars

\* initialize_schema on a database in any installed state: no table, or a
\* metadata table with some version rows, or with none
Databases ==
    {NoSchema}
        \cup {Metadata(vs, n) : vs \in SUBSET Versions, n \in 0..1}

InitSchema ==
    /\ InitStore
    /\ max_fetch_size = MaxFetchSize
    /\ pages = <<>>
    /\ schema \in Databases
    /\ runs = [p \in Callers |-> IdleRun]
    /\ executed = <<>>
    /\ InitConnections

Step(p) ==
    \/ InitializeSchema(p)
    \/ GetVersionTables(p)
    \/ GetVersionRow(p)
    \/ CheckDatabase(p)
    \/ CreateSchema(p)
    \/ Migrate(p)

\* one process runs initialize_schema
NextSchema == Step(1)

SpecSchema == InitSchema /\ [][NextSchema]_vars

\* several processes run initialize_schema on the same database
NextSchemaConc == \E p \in Callers : Step(p)

SpecSchemaConc == InitSchema /\ [][NextSchemaConc]_vars

\* flush, then initialize_schema, on a database whose metadata holds some row
\* or that has no table
InitFlush ==
    /\ InitSchema
    /\ schema # Metadata({}, 0)

NextFlush ==
    \/ runs[1].pc = "idle" /\ executed = <<>> /\ Flush
    \/ Step(1)

SpecFlush == InitFlush /\ [][NextFlush]_vars

\* the connect() scopes of the operations of several callers, on a pool
\* with or without pooling
ScopeOps == {"get", "create", "delete"}

InitScope ==
    /\ InitStore
    /\ max_fetch_size = MaxFetchSize
    /\ pages = <<>>
    /\ schema = Metadata({schema_version}, 0)
    /\ runs = [p \in Callers |-> IdleRun]
    /\ executed = <<>>
    /\ \E always_close \in BOOLEAN : pool = IdlePool(always_close)
    /\ scopes = [p \in Callers |-> <<>>]
    /\ exited = <<>>
    /\ rendered = <<>>

NextScope ==
    \/ \E p \in Callers, op \in ScopeOps : Call(p, op)
    \/ \E p \in Callers : BodyGet(p)
    \/ \E p \in Callers : BodyCheckUnicity(p)
    \/ \E p \in Callers : BodyInsert(p)
    \/ \E p \in Callers : BodyDelete(p)
    \/ \E p \in Callers : Commit(p)
    \/ \E p \in Callers : Except(p)
    \/ \E p \in Callers : Finally(p)
    \/ \E k \in ConnIds : Disconnect(k)

SpecScope == InitScope /\ [][NextScope]_vars

\* the renderers on filters, rules and sorts whose field names and values
\* come from the request
Hostile == "x') OR ('1' = '1"
RenderFields == {id_field, modified_field, "email", Hostile}
RenderValue(field, n) == IF n = 1 THEN StrA ELSE Num1
RenderFilters ==
    {Filter(field, RenderValue(field, n), operator) :
        field \in RenderFields, n \in 1..2,
        operator \in {COMPARISON_EQ, COMPARISON_GT}}
RenderFilterLists ==
    {<<f>> : f \in RenderFilters}
        \cup {<<f, g>> : f \in {h \in RenderFilters : h.operator = COMPARISON_EQ},
                         g \in {h \in RenderFilters : h.value = StrA}}
RenderRules ==
    {<<r>> : r \in {<<f>> : f \in RenderFilters}}
        \cup {<<<<f>>, <<g>>>> :
                f \in {h \in RenderFilters : h.operator = COMPARISON_GT /\ h.value = StrA},
                g \in {h \in RenderFilters : h.operator = COMPARISON_EQ /\ h.value = StrA}}
RenderSortings ==
    {<<Sort(field, direction)>> : field \in RenderFields, direction \in {-1, 1}}
        \cup {<<Sort(field, 1), Sort(other, -1)>> :
                field \in RenderFields, other \in RenderFields}
RenderInputs ==
    {RenderInput("conditions", arg) : arg \in RenderFilterLists}
        \cup {RenderInput("pagination", arg) : arg \in RenderRules}
        \cup {RenderInput("sorting", arg) : arg \in RenderSortings}

InitRender ==
    /\ InitStore
    /\ max_fetch_size = MaxFetchSize
    /\ pages = <<>>
    /\ InitAdmin

NextRender == \E input \in RenderInputs : Render(input)

SpecRender == InitRender /\ [][NextRender]_vars

----------------------------------------------------------------------------
(* Properties *)

Writes == {"create", "update", "delete", "delete_all"}

\* the operation that completed in the last step wrote to collection c
Wrote(c) == last.op \in Writes /\ last.out = "ok" /\ last.coll = c

StrictlyIncreasing(s) == \A j, k \in DOMAIN s : j < k => s[j] < s[k]

\* C1: under any interleaving of the callers' create, update, delete and
\* delete_all, the last_modified values assigned in one collection are
\* pairwise distinct and each is greater than every value assigned before it.
C1_TimestampsStrictlyIncrease ==
    \A c \in Collections : StrictlyIncreasing(issued[c])

\* a write committed while another caller was between its statements, and it
\* was not the first write of the collection
C1_Witness ==
    /\ Wrote("c1")
    /\ Len(issued["c1"]) >= 2
    /\ \E q \in Callers : q # last.caller /\ pc[q] \in {"create_insert", "update_write"}

\* C2 (state part): what collection_timestamp returns is the maximum
\* last_modified over the live records and the tombstones of the collection.
C2_ReturnsMax ==
    (last.op = "collection_timestamp" /\ RowTimestamps(last.coll) # {})
        => last.val = Max(RowTimestamps(last.coll))

\* C2 (step part): the collection timestamp never decreases, and it grows
\* over every successful create, update and delete of the collection.
C2_Grows ==
    \A c \in Collections :
        /\ resource_timestamp(c)' >= resource_timestamp(c)
        /\ (Wrote(c)' /\ last'.op # "delete_all")
              => resource_timestamp(c)' > resource_timestamp(c)

\* C2: collection_timestamp returns the maximum last_modified of the rows of
\* the collection, and that value strictly increases over every successful
\* create, update or delete.
C2_CollectionTimestamp == [](C2_ReturnsMax) /\ [][C2_Grows]_vars

\* collection_timestamp answered after three writes, one of them a delete
C2_Witness ==
    /\ last.op = "collection_timestamp"
    /\ Len(issued[last.coll]) >= 3
    /\ TombIds(last.coll) # {}
    /\ LiveIds(last.coll) # {}

\* no two live records of a collection hold the same non-null value on a
\* unique field
UniqueValues(c) ==
    \A i, j \in LiveIds(c) : \A f \in Range(unique_fields) :
        (i # j /\ PyGet(records[c][i].data, f) # JNull)
            => PyGet(records[c][i].data, f) # PyGet(records[c][j].data, f)

Holders(c, record, i) ==
    {j \in LiveIds(c) \ {i} : \E f \in Range(unique_fields) :
        /\ PyGet(record, f) # JNull
        /\ PyGet(records[c][j].data, f) = PyGet(record, f)}

\* C4: a create whose record holds on a unique field the value a live record
\* already holds fails with UnicityError carrying that record, and stores
\* nothing; a create whose record holds no value on any unique field succeeds.
C4_CreateUnicity ==
    last.op = "create" =>
        /\ last.out = "ok" => Holders(last.coll, last.record, last.id) = {}
        /\ last.out = "UnicityError" =>
              /\ last.val[id_field] \in LiveIds(last.coll)
              /\ last.val = GetRecord(last.coll, last.val[id_field])
              /\ \E flt \in UnicityFilters(last.record) :
                    format_conditions(last.coll, last.val[id_field], <<flt>>)
              /\ ~Live(last.coll, last.id)
        /\ UnicityFilters(last.record) = {} => last.out = "ok"

\* C5: update excludes the updated identity from the conflict search, whether
\* or not the payload holds the identity field: the record UnicityError
\* carries is never the updated record itself.
C5_UpdateExcludesSelf ==
    (last.op = "update" /\ last.out = "UnicityError") => last.val[id_field] # last.id

\* C6: after create, get with the returned identity returns the input payload
\* extended with the identity and last_modified create returned.
C6_CreateThenGet ==
    /\ (last.op = "create" /\ last.out = "ok") =>
          /\ Live(last.coll, last.id)
          /\ GetRecord(last.coll, last.id) = last.val
          /\ \A f \in DOMAIN last.val :
                f \notin {id_field, modified_field} =>
                    f \in DOMAIN last.record /\ last.val[f] = last.record[f]
          /\ DOMAIN last.val = DOMAIN last.record \cup {id_field, modified_field}
          /\ last.val[id_field] = last.id
    /\ (last.op = "get" /\ last.out = "ok") =>
          last.val = GetRecord(last.coll, last.id)

\* create returned a record for a payload that named another identity
C6_Witness ==
    /\ last.op = "create" /\ last.out = "ok"
    /\ RecordId(last.record) \notin {0, last.id}
    /\ PyGet(last.record, "email") # JNull
    /\ Len(issued[last.coll]) >= 2

\* C7 (state part): after a successful update the identity is live, holds the
\* payload given to update, and get returns that payload with the identity
\* and the last_modified update returned.
C7_Stored ==
    (last.op = "update" /\ last.out = "ok") =>
        /\ Live(last.coll, last.id)
        /\ records[last.coll][last.id].data = last.record
        /\ GetRecord(last.coll, last.id) = last.val
        /\ last.val = Returned(last.record, last.id,
                               records[last.coll][last.id].last_modified)

\* C7 (step part): a successful update writes the row of its identity and no
\* other row, whether or not the identity was live before.
C7_Upsert ==
    (last'.op = "update" /\ last'.out = "ok") =>
        /\ \A i \in Ids \ {last'.id} :
              records'[last'.coll][i] = records[last'.coll][i]
        /\ \A c \in Collections \ {last'.coll} : records'[c] = records[c]
        /\ deleted' = deleted
        /\ records'[last'.coll][last'.id].last_modified
              \notin Range(issued[last'.coll])

\* C7: update on an identity with no live record creates the record under
\* that identity, update on a live identity overwrites its payload and keeps
\* the identity; get then returns the payload given to update.
C7_UpdateIsUpsert == [](C7_Stored) /\ [][C7_Upsert]_vars

\* update re-created an identity that had been deleted
C7_Witness ==
    /\ last.op = "update" /\ last.out = "ok"
    /\ Tombstoned(last.coll, last.id)
    /\ Len(issued[last.coll]) = 3

\* C8: under every interleaving with the deletes of other callers, the
\* outcome of update is never RecordNotFoundError.
C8_UpdateNeverNotFound ==
    last.op = "update" => last.out # "RecordNotFoundError"

\* a get or a delete of the identity whose delete has just succeeded fails with
\* RecordNotFoundError and leaves both tables as they are
C9_Step ==
    (/\ last.op = "delete" /\ last.out = "ok"
     /\ last'.op \in {"get", "delete"}
     /\ last'.coll = last.coll /\ last'.id = last.id)
        => /\ last'.out = "RecordNotFoundError"
           /\ deleted' = deleted
           /\ records' = records

\* C9: after a successful delete of an identity, get of that identity fails
\* with RecordNotFoundError, a second delete of it fails with
\* RecordNotFoundError too, and the failing delete adds no tombstone.
C9_DeleteThenNotFound == [][C9_Step]_vars

\* a second delete of a deleted identity has just failed
C9_Witness ==
    /\ last.op = "delete" /\ last.out = "RecordNotFoundError"
    /\ Tombstoned(last.coll, last.id)
    /\ ~Live(last.coll, last.id)

\* a live record disappears exactly when the tombstone of its identity is
\* written, and the tombstone holds a last_modified assigned in that step
C10_Step ==
    \A c \in Collections, i \in Ids :
        /\ (Live(c, i) /\ ~Live(c, i)') <=> (deleted'[c][i] # deleted[c][i])
        /\ (deleted'[c][i] # deleted[c][i]) =>
              /\ deleted'[c][i] \in Range(issued'[c]) \ Range(issued[c])
              /\ Len(issued'[c]) = Len(issued[c]) + Cardinality({j \in Ids : deleted'[c][j] # deleted[c][j]})
              /\ last'.op = "delete" => last'.val = Tombstone(i, deleted'[c][i])

\* C10: delete is atomic: under every interleaving, no step leaves a deleted
\* record gone without its tombstone or writes a tombstone while the record
\* stays; the tombstone holds the last_modified assigned by the step that
\* removes the record (the one delete returns).
C10_DeleteAtomic == [][C10_Step]_vars

\* a delete committed while another caller was between its statements
C10_Witness ==
    /\ last.op = "delete" /\ last.out = "ok"
    /\ Tombstoned(last.coll, last.id) /\ ~Live(last.coll, last.id)
    /\ \E q \in Callers : q # last.caller /\ pc[q] # "idle"

\* the places of the entries get_all returned for identity i
Entries(i) == {k \in DOMAIN last.val[1] : last.val[1][k][id_field] = i}

\* C11: for an identity that was created and then deleted, get_all returns at
\* most one entry, the entry is the tombstone (it carries the deleted marker),
\* get_all with include_deleted=false returns no entry, and get_all with
\* include_deleted=true and no filter, rule or limit returns exactly one when
\* the rows of the collection fit in max_fetch_size.
C11_OneDeletedEntry ==
    last.op = "get_all" =>
        \A i \in Ids :
            (Tombstoned(last.coll, i) /\ ~Live(last.coll, i)) =>
                /\ Cardinality(Entries(i)) <= 1
                /\ \A k \in Entries(i) :
                      last.val[1][k] = Tombstone(i, deleted[last.coll][i])
                /\ ~last.record.include_deleted => Entries(i) = {}
                /\ (/\ last.record.include_deleted
                    /\ last.record.filters = <<>>
                    /\ last.record.pagination_rules = <<>>
                    /\ last.record.limit = NoLimit
                    /\ Cardinality(LiveIds(last.coll)) + Cardinality(TombIds(last.coll))
                          <= max_fetch_size)
                      => Cardinality(Entries(i)) = 1

\* get_all with include_deleted=true returned a tombstone beside a live record
C11_Witness ==
    /\ last.op = "get_all"
    /\ last.record.include_deleted
    /\ Len(last.val[1]) = 2
    /\ \E i \in Ids :
          /\ Tombstoned(last.coll, i) /\ ~Live(last.coll, i)
          /\ Cardinality(Entries(i)) = 1
    /\ LiveIds(last.coll) # {}

\* the identities whose live record the step removes from collection c
Removed(c) == {i \in Ids : Live(c, i) /\ ~Live(c, i)'}

\* a successful delete_all removes at most max_fetch_size records and returns
\* one tombstone for each record it removes
C12_Step ==
    \A c \in Collections :
        (last'.op = "delete_all" /\ last'.out = "ok" /\ last'.coll = c) =>
            /\ Cardinality(Removed(c)) <= max_fetch_size
            /\ Len(last'.val) = Cardinality(Removed(c))
            /\ {last'.val[k][id_field] : k \in DOMAIN last'.val} = Removed(c)

\* C12: one call to delete_all deletes at most max_fetch_size records, and
\* the list it returns holds exactly one tombstone for every record the call
\* deleted, for any number of matching records.
C12_DeleteAllBounded == [][C12_Step]_vars

\* C13: the total count get_all returns is the number of live records of the
\* collection that match the filters, whatever the pagination rules and the
\* limit are, also for a page whose rules select no record.
C13_TotalCount ==
    last.op = "get_all" =>
        last.val[2] =
            Cardinality({i \in LiveIds(last.coll) :
                            format_conditions(last.coll, i, last.record.filters)})

\* C14: get_all never returns more than max_fetch_size records, and with a
\* non-negative limit it returns at most min(limit, max_fetch_size) records.
C14_LimitBelowCap ==
    last.op = "get_all" =>
        /\ Len(last.val[1]) <= max_fetch_size
        /\ last.record.limit >= 0 =>
              Len(last.val[1]) <= Min({last.record.limit, max_fetch_size})

\* the identities of the records of one page
PageRecordIds(page) == {page[k][id_field] : k \in DOMAIN page}

\* C15: the traversal of five records by pages of 2 returns pages of 2, 2 and
\* 1 records, and the three pages together hold the five records: with five
\* entries in all, each record exactly once.
C15_KeysetPages ==
    /\ Len(pages) >= 1 => Len(pages[1]) = 2
    /\ Len(pages) >= 2 => Len(pages[2]) = 2
    /\ Len(pages) >= 3 =>
          /\ Len(pages[3]) = 1
          /\ PageRecordIds(pages[1]) \cup PageRecordIds(pages[2])
                \cup PageRecordIds(pages[3]) = PageIds

C17_GuardedMigration ==
    \A k \in DOMAIN executed :
        executed[k].from > 0 => executed[k].installed = executed[k].from

\* C18: a scope that is not read-only and whose body ends normally calls
\* commit exactly once, and what it wrote is committed when commit succeeds;
\* a scope in which the database raises an error commits nothing, rolls back
\* (on a connection that is still open) and raises BackendError.
C18_CommitOrRollback ==
    \A n \in DOMAIN exited :
        LET e == exited[n]
        IN  /\ e.commit_calls <= 1
            /\ (e.body = "normal" /\ ~e.readonly) => e.commit_calls = 1
            /\ (e.body = "normal" /\ ~e.error) =>
                  e.out = "ok" /\ e.committed = e.wrote /\ e.rollbacks = 0
            /\ e.error =>
                  /\ e.out = "BackendError"
                  /\ e.committed = 0
                  /\ (e.conn # NoConn /\ ~e.lost) => e.rollbacks = 1

\* a scope has committed its write and another has been rolled back
C18_Witness ==
    /\ \E n \in DOMAIN exited :
          exited[n].committed = 1 /\ exited[n].commit_calls = 1
    /\ \E n \in DOMAIN exited :
          exited[n].error /\ exited[n].rollbacks = 1 /\ exited[n].out = "BackendError"

\* C19: when no operation is running, the pool counts no connection as
\* checked out, whatever the exit paths of the scopes were.
C19_PoolKeepsCapacity ==
    (\A p \in Callers : Len(scopes[p]) = 0) => pool.used = {}

\* C20: no operation holds more than one connection of the pool at a time.
C20_OneConnection ==
    \A p \in Callers :
        Cardinality({n \in DOMAIN scopes[p] : scopes[p][n].conn # NoConn}) <= 1

\* C21: when no connection was lost, no operation fails for want of a
\* connection: a scope entered while every connection of the pool is checked
\* out waits for one and gets it.
C21_ExhaustionWaits ==
    pool.closed = {} => \A n \in DOMAIN exited : exited[n].conn # NoConn

\* identity, modification or payload: what the renderers tell apart in a field
FieldClass(field) ==
    IF field = id_field THEN "id"
    ELSE IF field = modified_field THEN "modified"
    ELSE "payload"

\* what the claim lets the SQL text depend on: the renderer, the number and
\* places of the filters, rules and sorts, their operators or directions and
\* the class of their fields
ListShape(fs) ==
    [k \in DOMAIN fs |->
        IF "operator" \in DOMAIN fs[k]
          THEN <<FieldClass(fs[k].field), fs[k].operator>>
          ELSE <<FieldClass(fs[k].field), IF fs[k].direction > 0 THEN "ASC" ELSE "DESC">>]

Shape(input) ==
    IF input.renderer = "pagination"
      THEN <<input.renderer, [k \in DOMAIN input.arg |-> ListShape(input.arg[k])]>>
      ELSE <<input.renderer, ListShape(input.arg)>>

\* C22: two inputs of a renderer that differ only in payload field names and
\* in values yield the same SQL text; the names and values are in the holders.
C22_SqlTextIndependent ==
    \A m, n \in DOMAIN rendered :
        Shape(rendered[m].input) = Shape(rendered[n].input)
            => rendered[m].sql = rendered[n].sql

\* two filters lists of the same shape, one with the hostile field name, were
\* rendered
C22_Witness ==
    /\ Len(rendered) = 2
    /\ rendered[1].input # rendered[2].input
    /\ Shape(rendered[1].input) = Shape(rendered[2].input)
    /\ rendered[1].input.renderer = "conditions"
    /\ Len(rendered[1].input.arg) = 2
    /\ rendered[1].input.arg[1].field = Hostile
    /\ rendered[2].input.arg[1].field = "email"

\* the exceptions of the storage that are not BackendError
DomainErrors == {"UnicityError", "RecordNotFoundError"}

\* an operation that ends with a domain error leaves both tables, hence the
\* collection timestamp, as they were
FailedStep ==
    (last' # last /\ last'.out \in DomainErrors)
        => /\ records' = records
           /\ deleted' = deleted
           /\ \A c \in Collections : resource_timestamp(c)' = resource_timestamp(c)

FailedLeavesTables == [][FailedStep]_vars

\* C23: a scope left by a domain error wrote nothing and committed nothing,
\* no commit was called in it, a connection in the pool has no open
\* transaction, and a scope commits no more than it wrote itself.
C23_DomainErrorCommitsNothing ==
    /\ \A n \in DOMAIN exited :
          /\ exited[n].out \in DomainErrors => exited[n].body = "domain_error"
          /\ exited[n].body = "domain_error"
                => /\ exited[n].wrote = 0
                   /\ exited[n].commit_calls = 0
                   /\ exited[n].rollbacks = 0
          /\ exited[n].committed <= exited[n].wrote
    /\ \A k \in ConnIds \ pool.used : pool.pending[k] = 0

\* delete raised RecordNotFoundError in its scope, and a later create
\* committed its row through the same connection
C23_Witness ==
    \E m, n \in DOMAIN exited :
        /\ m < n
        /\ exited[m].op = "delete"
        /\ exited[m].out = "RecordNotFoundError"
        /\ exited[n].conn = exited[m].conn
        /\ exited[n].op = "create"
        /\ exited[n].committed = 1

\* the version rows of metadata were all written by the scripts executed: the
\* run of initialize_schema found a metadata table without a version row
StartedWithoutVersionRow ==
    /\ schema.tables
    /\ schema.versions \subseteq {executed[k].to : k \in DOMAIN executed}
    /\ executed # <<>> => executed[1].from # 0

\* C24: on a metadata table without a version row, initialize_schema takes
\* an empty table for schema_version and runs no script, and a table with
\* other rows for version 1 and runs the migrations (1, 2) ... up to
\* schema_version, in this order.
C24_GuessedVersion ==
    StartedWithoutVersionRow =>
        /\ runs[1].pc \notin {"check", "create", "aborted"}
        /\ IF schema.others = 0
             THEN /\ executed = <<>>
                  /\ runs[1].todo = <<>>
                  /\ runs[1].pc # "migrate"
                  /\ InstalledVersion(schema) = schema_version
             ELSE /\ \A k \in DOMAIN executed :
                        executed[k].from = k /\ executed[k].to = k + 1
                  /\ ~runs[1].first =>
                        Len(executed) + Len(runs[1].todo) = schema_version - 1
                  /\ runs[1].pc = "done" => Len(executed) = schema_version - 1

\* initialize_schema has run to its end on a flushed database
C24_Witness ==
    /\ schema = Metadata({}, 0)
    /\ runs[1].pc = "done"

\* initialize_schema has run every migration on a metadata table that had
\* rows but no version row
C24_WitnessFirstVersions ==
    /\ StartedWithoutVersionRow
    /\ schema.others = 1
    /\ runs[1].pc = "done"
    /\ Len(executed) = schema_version - 1

\* C25: under every interleaving with the updates and deletes of other
\* callers, no update fails on the row it looked up: neither on the key of
\* the table records (the row appeared) nor on the missing result of its
\* UPDATE (the row disappeared).
C25_AtomicUpsert ==
    last.op = "update" => last.out \notin {"BackendError", "TypeError"}

\* C26: no identity of a collection is both a live record and a tombstone,
\* and get_all with include_deleted=true returns at most one entry for an
\* identity.
C26_LiveOrTombstone ==
    /\ \A c \in Collections, i \in Ids : ~(Live(c, i) /\ Tombstoned(c, i))
    /\ (last.op = "get_all" /\ last.record.include_deleted)
          => \A i \in Ids : Cardinality(Entries(i)) <= 1

\* the records of all the pages received
RECURSIVE AllPages(_)
AllPages(ps) == IF Len(ps) = 0 THEN <<>> ELSE ps[1] \o AllPages(Tail(ps))

\* the traversal is over: the last page came back empty or short
TraversalDone ==
    /\ Len(pages) > 0
    /\ Len(pages[Len(pages)]) < 2

\* ORDER BY on field x puts a record after another exactly when the condition
\* x > value of the other holds of it
SortAgreesWithCompare ==
    \A i, j \in LiveIds("c1") :
        "x" \in DOMAIN records["c1"][i].data =>
            (SortsBefore(LiveRow("c1", i), LiveRow("c1", j), <<Sort("x", 1)>>)
                <=> RowSatisfies(LiveRow("c1", j),
                                 Filter("x", records["c1"][i].data["x"],
                                        COMPARISON_GT)))

\* C27: the traversal sorted by a payload field, each page asked with the
\* rule field > last value seen, returns every record of the collection
\* exactly once, also when a record lacks the field: the order of the pages
\* and the comparison of the rule agree on every pair of records.
C27_SparseTraversal ==
    TraversalDone =>
        /\ SortAgreesWithCompare
        /\ PageRecordIds(AllPages(pages)) = LiveIds("c1")
        /\ Len(AllPages(pages)) = Cardinality(LiveIds("c1"))

\* C28: the field a UnicityError names is one on which the record given and
\* the record found hold the same value, whatever the order of the unique
\* fields and whichever of them the record holds.
C28_ErrorNamesConflict ==
    (last.op = "create" /\ last.out = "UnicityError")
        => /\ PyGet(last.record, last.field) # JNull
           /\ PyGet(last.val, last.field) = PyGet(last.record, last.field)

\* a step changes the rows and the timestamp of the collection its operation
\* names, and of no other
WritesOwn ==
    \A c \in Collections :
        (\/ records'[c] # records[c]
         \/ deleted'[c] # deleted[c]
         \/ resource_timestamp(c)' # resource_timestamp(c))
            => /\ last'.coll = c
               /\ last'.op \in {"create", "update", "delete", "delete_all"}
               /\ last'.out = "ok"

\* what get, get_all and the unicity check answered is in the tables of the
\* collection the operation names
ReadsOwn ==
    LET c == last.coll
    IN  /\ (last.op = "get" /\ last.out = "ok")
              => Live(c, last.id) /\ last.val = GetRecord(c, last.id)
        /\ (last.op = "get" /\ last.out = "RecordNotFoundError") => ~Live(c, last.id)
        /\ last.op = "get_all"
              => /\ \A k \in DOMAIN last.val[1] :
                       LET e == last.val[1][k]
                       IN  \/ Live(c, e[id_field])
                              /\ e = ResultRecord(LiveRow(c, e[id_field]))
                           \/ Tombstoned(c, e[id_field])
                              /\ e = ResultRecord(DeletedRow(c, e[id_field]))
                 /\ last.val[2] \in {0, total_filtered(c, last.record.filters)}
        /\ last.out = "UnicityError"
              => /\ Live(c, last.val[id_field])
                 /\ last.val = GetRecord(c, last.val[id_field])
                 /\ PyGet(last.val, "email") = PyGet(last.record, "email")
        /\ (last.op \in {"create", "update"} /\ last.out = "ok")
              => \A i \in LiveIds(c) \ {last.id} :
                    \/ PyGet(last.record, "email") = JNull
                    \/ PyGet(records[c][i].data, "email") # PyGet(last.record, "email")

IsolationStep == WritesOwn /\ ReadsOwn'

\* C29: an operation on one collection leaves the records, the tombstones
\* and the timestamp of every other collection as they were, also for an
\* identity both collections hold; get, get_all and the unicity check answer
\* from the rows of their own collection only.
C29_CollectionsIsolated == [][IsolationStep]_vars

\* a delete has removed an identity from one collection while the other
\* collection holds a live record of the same identity with the same email
C29_Witness ==
    /\ last.op = "delete" /\ last.out = "ok"
    /\ Tombstoned(last.coll, last.id) /\ ~Live(last.coll, last.id)
    /\ \E c \in Collections \ {last.coll} :
          /\ Live(c, last.id)
          /\ PyGet(records[c][last.id].data, "email") = StrA

\* a create has stored an email that a live record of the other collection
\* holds
C29_WitnessUnicity ==
    /\ last.op = "create" /\ last.out = "ok"
    /\ PyGet(last.record, "email") = StrA
    /\ \E c \in Collections \ {last.coll} : \E i \in LiveIds(c) :
          PyGet(records[c][i].data, "email") = StrA

====
